---- MODULE Spec2Model ----
(***************************************************************************)
(* A model of the LIWC empathy analysis scripts.                           *)
(*                                                                         *)
(*   - liwc_Anova_results_table.py: load_data, calculate_f_statistic,      *)
(*     calculate_eta_squared and analyze_data;                             *)
(*   - empathy_score.py: calculate_new_empathy_score;                      *)
(*   - run_all_analysis.py: the batch runner;                              *)
(*   - the effect-size labels of the three reporting scripts.              *)
(*                                                                         *)
(* Scores are Python floats in the source.  The model computes with exact  *)
(* rationals <<numerator, denominator>> (denominator > 0, lowest terms),   *)
(* i.e. the arithmetic of the real numbers the statistics are defined on.  *)
(***************************************************************************)
EXTENDS Integers, Sequences, FiniteSets, TLC

VARIABLES
    groups,       \* SpecStats: the argument passed to the two statistics
    f_result,     \* SpecStats: what calculate_f_statistic returned
    eta_result,   \* SpecStats: what calculate_eta_squared returned
    data,         \* Spec: the rows load_data returned (the input of analyze_data)
    results,      \* Spec: the record list of the latest run of analyze_data
    prev_results, \* Spec: the record list of the run before it, on the same rows
    run_count,    \* Spec: how many times the script has been run on the rows
    df,           \* SpecScore: the frame handed to calculate_new_empathy_score
    df_new,       \* SpecScore: the frame it returned for df
    scaled,       \* SpecScore: a run on df with one column scaled (at most one)
    pc,           \* SpecBatch: where main() of the batch runner stands
    idx,          \* SpecBatch: position of the for loop in the script list
    output_dir,   \* SpecBatch: whether the directory 'output' exists
    launched,     \* SpecBatch: the scripts handed to subprocess.run, in order
    running,      \* SpecBatch: the child processes that are alive
    log,          \* SpecBatch: what happened at each step handled so far
    success_count,\* SpecBatch: the local success_count of main()
    total_count,  \* SpecBatch: the local total_count of main()
    summary,      \* SpecBatch: the counts printed by the final summary
    csv_file,     \* SpecBatch: output/empathy_scores_with_new_formula.csv on disk
    csv_at_launch,\* SpecBatch: what csv_file was at each launch, in order
    csv_fields,   \* SpecLoad: the header line of the CSV file load_data opens
    csv_rows,     \* SpecLoad: its data lines, each a sequence of field texts
    load_result,  \* SpecLoad: what load_data did with the file
    eta_input,    \* SpecLabels: the effect size to be labelled
    table_label,  \* SpecLabels: the label of liwc_Anova_results_table.py
    graph_label,  \* SpecLabels: the label of liwc_Anova_graph.py
    test_label,   \* SpecLabels: the label of liwc_anovaTest.py
    eta_groups,   \* SpecEta: the groups of one (empathy type, attribute type) pair
    test_eta,     \* SpecEta: the eta_squared liwc_anovaTest.py stores for them
    graph_eta,    \* SpecEta: the eta_squared liwc_Anova_graph.py stores for them
    passed,       \* SpecPure: the list of groups as it was when first passed
    passed_now,   \* SpecPure: the same list object as it is now
    f_calls,      \* SpecPure: what the calls of calculate_f_statistic returned
    eta_calls     \* SpecPure: what the calls of calculate_eta_squared returned

statsVars == <<groups, f_result, eta_result>>
analysisVars == <<data, results, prev_results, run_count>>
scoreVars == <<df, df_new, scaled>>
batchVars == <<pc, idx, output_dir, launched, running, log, success_count,
               total_count, summary, csv_file, csv_at_launch>>
loadVars == <<csv_fields, csv_rows, load_result>>
labelVars == <<eta_input, table_label, graph_label, test_label>>

etaVars == <<eta_groups, test_eta, graph_eta>>

pureVars == <<passed, passed_now, f_calls, eta_calls>>

vars == <<statsVars, analysisVars, scoreVars, batchVars, loadVars, labelVars, etaVars,
          pureVars>>

(***************************************************************************)
(* Bounds of the model.                                                    *)
(***************************************************************************)
MaxGroups == 3      \* groups in a collection handed to the statistics
MaxGroupLen == 3    \* values in one group
MaxVal == 2         \* scores are drawn from 0..MaxVal
MaxRows == 4        \* rows in the loaded data
MaxRuns == 2        \* runs of the script on the same rows

(***************************************************************************)
(* Exact rational arithmetic.                                              *)
(***************************************************************************)
Abs(n) == IF n < 0 THEN -n ELSE n

RECURSIVE GCD(_, _)
GCD(a, b) == IF b = 0 THEN a ELSE GCD(b, a % b)

\* The outcome of an operation that raised (a division by zero, the mean of
\* no data) instead of producing a number.  Arithmetic on it yields it again,
\* as the exception propagates.
Raised == <<0, 0>>

\* n/d in lowest terms with a positive denominator; Raised when d = 0.
Rat(n, d) ==
    IF d = 0 THEN Raised
    ELSE LET g == GCD(Abs(n), Abs(d))
             s == IF d < 0 THEN -1 ELSE 1
         IN  <<(s * n) \div g, (s * d) \div g>>

Zero == <<0, 1>>
One == <<1, 1>>

RAdd(x, y) == Rat(x[1] * y[2] + y[1] * x[2], x[2] * y[2])
RSub(x, y) == Rat(x[1] * y[2] - y[1] * x[2], x[2] * y[2])
RMul(x, y) == Rat(x[1] * y[1], x[2] * y[2])
RDiv(x, y) == Rat(x[1] * y[2], x[2] * y[1])
RSq(x) == RMul(x, x)
RLt(x, y) == x[1] * y[2] < y[1] * x[2]
RLe(x, y) == x[1] * y[2] <= y[1] * x[2]
RGt(x, y) == RLt(y, x)
RGe(x, y) == RLe(y, x)

RECURSIVE RSum(_)
RSum(s) == IF s = <<>> THEN Zero ELSE RAdd(RSum(Tail(s)), Head(s))

RECURSIVE IntSum(_)
IntSum(s) == IF s = <<>> THEN 0 ELSE Head(s) + IntSum(Tail(s))

RECURSIVE Extend(_)
Extend(ss) == IF ss = <<>> THEN <<>> ELSE Head(ss) \o Extend(Tail(ss))

\* statistics.mean (which raises on an empty sequence)
Mean(xs) == Rat(IntSum(xs), Len(xs))

\* sum((x - m) ** 2 for x in xs)
SumSqDev(xs, m) == RSum([i \in 1..Len(xs) |-> RSq(RSub(Rat(xs[i], 1), m))])

(***************************************************************************)
(* calculate_f_statistic                                                   *)
(***************************************************************************)
F_HIGH == Rat(7, 1)
F_MID == Rat(4, 1)
F_LOW == Rat(5, 2)
P_001 == Rat(1, 1000)
P_01 == Rat(1, 100)
P_05 == Rat(5, 100)
P_10 == Rat(1, 10)

\* mutant: the early returns give the last bucket's p instead of 1
NeutralMutant == <<Zero, P_10>>

\* return 0, 1
Neutral == <<Zero, One>>

\* mutant: the bucket bounds taken inclusive
PValueOfMutant(f_stat) ==
    IF RGe(f_stat, F_HIGH) THEN P_001
    ELSE IF RGe(f_stat, F_MID) THEN P_01
    ELSE IF RGe(f_stat, F_LOW) THEN P_05
    ELSE P_10

\* mutant: the highest bucket reports a p value under 0.001
PValueOfUnderBound(f_stat) ==
    IF RGt(f_stat, F_HIGH) THEN Rat(5, 10000)
    ELSE IF RGt(f_stat, F_MID) THEN P_01
    ELSE IF RGt(f_stat, F_LOW) THEN P_05
    ELSE P_10

PValueOf(f_stat) ==
    IF RGt(f_stat, F_HIGH) THEN P_001
    ELSE IF RGt(f_stat, F_MID) THEN P_01
    ELSE IF RGt(f_stat, F_LOW) THEN P_05
    ELSE P_10

\* the groups with len(group) > 0, in order
NonEmpty(gs) == SelectSeq(gs, LAMBDA g : Len(g) > 0)

\* mutant: (n * (mean - grand_mean)) ** 2, the weight inside the square
BetweenSSWeightSquared(gs, grand_mean) ==
    LET ne == NonEmpty(gs)
    IN  RSum([i \in 1..Len(ne) |->
                RSq(RMul(Rat(Len(ne[i]), 1), RSub(Mean(ne[i]), grand_mean)))])

\* mutant: the group size left out of the sum
BetweenSSUnweighted(gs, grand_mean) ==
    LET ne == NonEmpty(gs)
    IN  RSum([i \in 1..Len(ne) |-> RSq(RSub(Mean(ne[i]), grand_mean))])

\* mutant: group_sizes appended for every group, empty ones too, so that zip
\* pairs a mean with the size of another group
BetweenSSMisaligned(gs, grand_mean) ==
    LET ne == NonEmpty(gs)
    IN  RSum([i \in 1..Len(ne) |->
                RMul(Rat(Len(gs[i]), 1), RSq(RSub(Mean(ne[i]), grand_mean)))])

\* mutant: n * mean ** 2, the grand mean not subtracted
BetweenSSUncentered(gs, grand_mean) ==
    LET ne == NonEmpty(gs)
    IN  RSum([i \in 1..Len(ne) |-> RMul(Rat(Len(ne[i]), 1), RSq(Mean(ne[i])))])

\* sum(n * (mean - grand_mean) ** 2 for mean, n in zip(group_means, group_sizes))
BetweenSS(gs, grand_mean) ==
    LET ne == NonEmpty(gs)
    IN  RSum([i \in 1..Len(ne) |->
                RMul(Rat(Len(ne[i]), 1), RSq(RSub(Mean(ne[i]), grand_mean)))])

\* the loop accumulating ssw over the groups with len(group) > 1
WithinSS(gs) ==
    LET big == SelectSeq(gs, LAMBDA g : Len(g) > 1)
    IN  RSum([i \in 1..Len(big) |-> SumSqDev(big[i], Mean(big[i]))])

\* mutant: ssw divided by one more than df_within
MeanSquareWithinOffByOne(ssw, df_within) ==
    IF df_within > 0 THEN RDiv(ssw, Rat(df_within + 1, 1)) ELSE One

\* msw = ssw / df_within if df_within > 0 else 1
MeanSquareWithin(ssw, df_within) ==
    IF df_within > 0 THEN RDiv(ssw, Rat(df_within, 1)) ELSE One

\* mutant: F = 1 instead of 0 when msw is not positive
FRatioOneWhenZero(msb, msw) == IF RGt(msw, Zero) THEN RDiv(msb, msw) ELSE One

\* mutant: the division without its msw > 0 test
FRatioUnguarded(msb, msw) == RDiv(msb, msw)

\* f_stat = msb / msw if msw > 0 else 0
FRatio(msb, msw) == IF RGt(msw, Zero) THEN RDiv(msb, msw) ELSE Zero

\* mutant: only df_between is tested
DegenerateDfBetweenOnly(df_between, df_within) == df_between = 0

\* if df_between == 0 or df_within == 0
DegenerateDf(df_between, df_within) == df_between = 0 \/ df_within = 0

\* what the caller sees when calculate_f_statistic raises instead of returning
FRaised == <<Raised, Raised>>

calculate_f_statistic(gs) ==
    IF Len(gs) < 2 THEN Neutral
    ELSE
      LET all_values == Extend(NonEmpty(gs))
      IN  IF Len(all_values) < 2 THEN Neutral
          ELSE
            LET grand_mean == Mean(all_values)
                ssb == BetweenSS(gs, grand_mean)
                ssw == WithinSS(gs)
                df_between == Len(gs) - 1
                df_within == Len(all_values) - Len(gs)
            IN  IF DegenerateDf(df_between, df_within) THEN Neutral
                ELSE
                  LET msb == RDiv(ssb, Rat(df_between, 1))
                      msw == MeanSquareWithin(ssw, df_within)
                      f_stat == FRatio(msb, msw)
                  IN  IF Raised \in {grand_mean, ssb, ssw, msb, msw, f_stat}
                      THEN FRaised
                      ELSE <<f_stat, PValueOf(f_stat)>>

(***************************************************************************)
(* calculate_eta_squared                                                   *)
(***************************************************************************)
TotalSS(all_values, grand_mean) == SumSqDev(all_values, grand_mean)

calculate_eta_squared(gs) ==
    LET all_values == Extend(NonEmpty(gs))
    IN  IF Len(all_values) < 2 THEN Zero
        ELSE
          LET grand_mean == Mean(all_values)
              total_ss == TotalSS(all_values, grand_mean)
              between_ss == BetweenSS(gs, grand_mean)
          IN  IF Raised \in {grand_mean, total_ss, between_ss} THEN Raised
              ELSE IF RGt(total_ss, Zero) THEN RDiv(between_ss, total_ss) ELSE Zero

(***************************************************************************)
(* analyze_data                                                            *)
(***************************************************************************)
\* mutant: a fourth empathy type is analysed
EmpathyTypesWithOther == <<"affective", "cognitive", "motivational", "other">>

empathy_types == <<"affective", "cognitive", "motivational">>

\* str.title() on the labels of the model
Title(s) ==
    CASE s = "affective" -> "Affective"
      [] s = "cognitive" -> "Cognitive"
      [] s = "motivational" -> "Motivational"
      [] s = "age" -> "Age"
      [] s = "gender" -> "Gender"
      [] OTHER -> s

RECURSIVE Pow10(_)
Pow10(n) == IF n = 0 THEN 1 ELSE 10 * Pow10(n - 1)

\* round(x, ndigits): the nearest multiple of 10^-ndigits, a tie going to the
\* even one
Round(x, ndigits) ==
    LET scale == Pow10(ndigits)
        n == x[1] * scale
        d == x[2]
        fl == n \div d
        twice == 2 * (n - fl * d)
        k == IF twice > d THEN fl + 1
             ELSE IF twice < d THEN fl
             ELSE IF fl % 2 = 0 THEN fl ELSE fl + 1
    IN  Rat(k, scale)

\* [row for row in rows if row[field] == value]
Filter(rows, field, value) == SelectSeq(rows, LAMBDA row : row[field] = value)

\* the keys of groups_dict, in the order the rows first insert them
RECURSIVE GroupKeys(_)
GroupKeys(rows) ==
    IF rows = <<>> THEN <<>>
    ELSE LET before == GroupKeys(SubSeq(rows, 1, Len(rows) - 1))
             key == rows[Len(rows)].attribute_value
         IN  IF \E i \in 1..Len(before) : before[i] = key
             THEN before ELSE Append(before, key)

\* mutant: every row's score is appended to every key's list
GroupOfAllRows(rows, key) ==
    [i \in 1..Len(rows) |-> rows[i].empathy_score]

\* groups_dict[key]: the scores appended for the key, in row order
GroupOf(rows, key) ==
    LET mine == Filter(rows, "attribute_value", key)
    IN  [i \in 1..Len(mine) |-> mine[i].empathy_score]

\* groups_dict.items()
GroupsDict(rows) ==
    LET keys == GroupKeys(rows)
    IN  [i \in 1..Len(keys) |-> <<keys[i], GroupOf(rows, keys[i])>>]

\* attr_data of one (empathy type, attribute type) pair
AttrData(rows, empathy_type, attr_type) ==
    Filter(Filter(rows, "empathy_type", empathy_type), "attribute_type", attr_type)

\* groups = [group for group in groups_dict.values() if len(group) > 0]
PairGroups(rows, empathy_type, attr_type) ==
    LET items == GroupsDict(AttrData(rows, empathy_type, attr_type))
    IN  NonEmpty([i \in 1..Len(items) |-> items[i][2]])

\* mutant: the marker bounds taken inclusive
SignificanceOfInclusive(p_value) ==
    IF RLe(p_value, P_001) THEN "***"
    ELSE IF RLe(p_value, P_01) THEN "**"
    ELSE IF RLe(p_value, P_05) THEN "*"
    ELSE "ns"

SignificanceOf(p_value) ==
    IF RLt(p_value, P_001) THEN "***"
    ELSE IF RLt(p_value, P_01) THEN "**"
    ELSE IF RLt(p_value, P_05) THEN "*"
    ELSE "ns"

SigLevelOf(p_value) ==
    IF RLt(p_value, P_001) THEN "p < 0.001"
    ELSE IF RLt(p_value, P_01) THEN "p < 0.01"
    ELSE IF RLt(p_value, P_05) THEN "p < 0.05"
    ELSE "p >= 0.05"

ETA_LARGE == Rat(14, 100)
ETA_MEDIUM == Rat(6, 100)

EffectSizeOf(eta_squared) ==
    IF RGe(eta_squared, ETA_LARGE) THEN "Large"
    ELSE IF RGe(eta_squared, ETA_MEDIUM) THEN "Medium"
    ELSE "Small"

\* group_stats, in the order of groups_dict (the standard deviations, which
\* are square roots, are not represented)
GroupStats(items) ==
    LET kept == SelectSeq(items, LAMBDA it : Len(it[2]) > 0)
    IN  [i \in 1..Len(kept) |->
            [value |-> kept[i][1], n |-> Len(kept[i][2]), mean |-> Round(Mean(kept[i][2]), 2)]]

\* the record appended to results for one pair
ResultRecord(rows, empathy_type, attr_type) ==
    LET attr_data == AttrData(rows, empathy_type, attr_type)
        gs == PairGroups(rows, empathy_type, attr_type)
        fp == calculate_f_statistic(gs)
        eta_squared == calculate_eta_squared(gs)
        all_scores == [i \in 1..Len(attr_data) |-> attr_data[i].empathy_score]
    IN  [Empathy_Type |-> Title(empathy_type),
         Attribute_Type |-> Title(attr_type),
         F_Statistic |-> Round(fp[1], 3),
         p_Value |-> Round(fp[2], 4),
         Significance |-> SignificanceOf(fp[2]),
         Sig_Level |-> SigLevelOf(fp[2]),
         Eta_Squared |-> Round(eta_squared, 3),
         Effect_Size |-> EffectSizeOf(eta_squared),
         Total_N |-> Len(all_scores),
         Overall_Mean |-> Round(Mean(all_scores), 2),
         Groups |-> Len(gs),
         Group_Details |-> GroupStats(GroupsDict(attr_data))]

\* mutant: a single group is enough for a record
PairRecordsOneGroup(rows, empathy_type, attr_type) ==
    IF Len(AttrData(rows, empathy_type, attr_type)) > 0
       /\ Len(PairGroups(rows, empathy_type, attr_type)) >= 1
    THEN <<ResultRecord(rows, empathy_type, attr_type)>>
    ELSE <<>>

\* the body of the inner loop: the records one pair adds (one or none)
PairRecords(rows, empathy_type, attr_type) ==
    IF Len(AttrData(rows, empathy_type, attr_type)) > 0
       /\ Len(PairGroups(rows, empathy_type, attr_type)) >= 2
    THEN <<ResultRecord(rows, empathy_type, attr_type)>>
    ELSE <<>>

\* analyze_data, given the order in which list(set(...)) yields the attribute
\* types
analyze_data(rows, attribute_types) ==
    Extend([e \in 1..Len(empathy_types) |->
        Extend([a \in 1..Len(attribute_types) |->
            PairRecords(rows, empathy_types[e], attribute_types[a])])])

\* set(row['attribute_type'] for row in data)
AttributeTypeSet(rows) == {rows[i].attribute_type : i \in 1..Len(rows)}

\* list(set(...)): the set's elements in the iteration order of the set, which
\* for strings follows the hash seed of the process
SetOrders(S) ==
    {s \in [1..Cardinality(S) -> S] : \A i, j \in 1..Cardinality(S) : s[i] = s[j] => i = j}

(***************************************************************************)
(* SpecStats: the two statistics applied to an arbitrary collection of     *)
(* groups.                                                                 *)
(***************************************************************************)
SeqsUpTo(S, n) == UNION {[1..k -> S] : k \in 0..n}

Values == 0..MaxVal
GroupInputs == SeqsUpTo(Values, MaxGroupLen)
GroupsInputs == SeqsUpTo(GroupInputs, MaxGroups)

\* the value of a result variable before the call that sets it
NotCalled == <<>>

StatsIdle ==
    /\ groups = <<>>
    /\ f_result = NotCalled
    /\ eta_result = NotCalled

AnalysisIdle ==
    /\ data = <<>>
    /\ results = <<>>
    /\ prev_results = <<>>
    /\ run_count = 0

ScoreIdle ==
    /\ df = <<>>
    /\ df_new = NotCalled
    /\ scaled = <<>>

BatchIdle ==
    /\ pc = "idle"
    /\ idx = 0
    /\ output_dir = FALSE
    /\ launched = <<>>
    /\ running = {}
    /\ log = <<>>
    /\ success_count = 0
    /\ total_count = 0
    /\ summary = <<>>
    /\ csv_file = "absent"
    /\ csv_at_launch = <<>>

LoadIdle ==
    /\ csv_fields = <<>>
    /\ csv_rows = <<>>
    /\ load_result = NotCalled

EtaIdle ==
    /\ eta_groups = <<>>
    /\ test_eta = NotCalled
    /\ graph_eta = NotCalled

PureIdle ==
    /\ passed = <<>>
    /\ passed_now = <<>>
    /\ f_calls = <<>>
    /\ eta_calls = <<>>

LabelsIdle ==
    /\ eta_input = Zero
    /\ table_label = ""
    /\ graph_label = ""
    /\ test_label = ""

InitStats ==
    /\ groups \in GroupsInputs
    /\ f_result = NotCalled
    /\ eta_result = NotCalled
    /\ AnalysisIdle
    /\ ScoreIdle
    /\ BatchIdle
    /\ LoadIdle
    /\ LabelsIdle
    /\ EtaIdle
    /\ PureIdle

CallF ==
    /\ f_result = NotCalled
    /\ f_result' = calculate_f_statistic(groups)
    /\ UNCHANGED <<groups, eta_result, analysisVars, scoreVars, batchVars, loadVars,
                   labelVars, etaVars, pureVars>>

CallEta ==
    /\ eta_result = NotCalled
    /\ eta_result' = calculate_eta_squared(groups)
    /\ UNCHANGED <<groups, f_result, analysisVars, scoreVars, batchVars, loadVars,
                   labelVars, etaVars, pureVars>>

NextStats == CallF \/ CallEta

SpecStats == InitStats /\ [][NextStats]_vars

(***************************************************************************)
(* Claims about calculate_f_statistic and calculate_eta_squared, checked   *)
(* under SpecStats.                                                        *)
(***************************************************************************)
FCalled == f_result # NotCalled
EtaCalled == eta_result # NotCalled

\* every value of the group equals its first one
Constant(g) == \A i \in 1..Len(g) : g[i] = g[1]

\* two non-empty groups, each of one repeated value, the two values different
TwoConstantGroups(gs) ==
    /\ Len(gs) = 2
    /\ \A k \in 1..2 : Len(gs[k]) >= 1 /\ Constant(gs[k])
    /\ gs[1][1] # gs[2][1]

\* C1: calculate_f_statistic called with exactly one group, of any size,
\* returns F = 0 and p = 1.
C1_SingleGroupNeutral ==
    (FCalled /\ Len(groups) = 1) => f_result = <<Zero, One>>

C1_Witness ==
    /\ FCalled
    /\ Len(groups) = 1
    /\ Len(groups[1]) >= 2
    /\ ~Constant(groups[1])
    /\ f_result = <<Zero, One>>

\* C2: whenever fewer than 2 of the groups passed are non-empty,
\* calculate_f_statistic returns F = 0 and p = 1 and raises nothing.
C2_FewNonEmptyNeutral ==
    (FCalled /\ Len(NonEmpty(groups)) < 2) => f_result = <<Zero, One>>

C5_PValueBuckets ==
    (FCalled /\ f_result # <<Zero, One>>) =>
        /\ f_result # FRaised
        /\ LET F == f_result[1]
               p == f_result[2]
           IN  /\ RGt(F, Rat(7, 1)) => p = Rat(1, 1000)
               /\ (RGt(F, Rat(4, 1)) /\ RLe(F, Rat(7, 1))) => p = Rat(1, 100)
               /\ (RGt(F, Rat(5, 2)) /\ RLe(F, Rat(4, 1))) => p = Rat(5, 100)
               /\ RLe(F, Rat(5, 2)) => p = Rat(1, 10)

C5_Witness ==
    /\ FCalled
    /\ f_result # FRaised
    /\ RGt(f_result[1], Rat(4, 1))
    /\ RLt(f_result[1], Rat(7, 1))
    /\ f_result[2] = Rat(1, 100)

C10_ZeroWithinEtaOne ==
    (EtaCalled /\ TwoConstantGroups(groups)) => eta_result = One

C10_Witness ==
    /\ EtaCalled
    /\ TwoConstantGroups(groups)
    /\ Len(groups[1]) = 3
    /\ Len(groups[2]) = 2
    /\ eta_result = One

\* two non-empty groups with the same mean, not both of one repeated value
TwoEqualMeanGroups(gs) ==
    /\ Len(gs) = 2
    /\ \A k \in 1..2 : Len(gs[k]) >= 1
    /\ IntSum(gs[1]) * Len(gs[2]) = IntSum(gs[2]) * Len(gs[1])
    /\ \E k \in 1..2 : ~Constant(gs[k])

\* C11: for two groups with identical means and non-zero within-group
\* variance, calculate_f_statistic returns F = 0 and calculate_eta_squared
\* returns 0.
C11_EqualMeansZero ==
    TwoEqualMeanGroups(groups) =>
        /\ FCalled => (f_result # FRaised /\ f_result[1] = Zero)
        /\ EtaCalled => eta_result = Zero

C11_Witness ==
    /\ TwoEqualMeanGroups(groups)
    /\ Len(groups[1]) # Len(groups[2])
    /\ IntSum(groups[1]) > 0
    /\ FCalled
    /\ EtaCalled
    /\ f_result = <<Zero, Rat(1, 10)>>
    /\ eta_result = Zero

\* the collection gs with its groups in the order order[1], order[2], ...
Permuted(gs, order) == [i \in 1..Len(gs) |-> gs[order[i]]]

SumOfSquares(xs) == IntSum([i \in 1..Len(xs) |-> xs[i] * xs[i]])

\* sum over the groups of (sum of the group)^2 / (size of the group)
GroupSquareTerm(gs) ==
    RSum([i \in 1..Len(gs) |-> Rat(IntSum(gs[i]) * IntSum(gs[i]), Len(gs[i]))])

\* SSB = sum over groups of size * (group mean - grand mean)^2, in its
\* expanded form: sum of S_g^2 / n_g, minus S^2 / N
SSBOf(gs) ==
    RSub(GroupSquareTerm(gs),
         Rat(IntSum(Extend(gs)) * IntSum(Extend(gs)), Len(Extend(gs))))

\* SSW = sum over groups of the squared deviations from the group's mean, in
\* its expanded form: sum of x^2, minus sum of S_g^2 / n_g
SSWOf(gs) == RSub(Rat(SumOfSquares(Extend(gs)), 1), GroupSquareTerm(gs))

\* 2 or more groups, all non-empty, more values than groups, SSW # 0
RegularGroups(gs) ==
    /\ Len(gs) >= 2
    /\ \A k \in 1..Len(gs) : Len(gs[k]) >= 1
    /\ Len(Extend(gs)) > Len(gs)
    /\ SSWOf(gs) # Zero

\* C20: for 2 or more non-empty groups with N > k and SSW # 0,
\* calculate_f_statistic returns F = (SSB / (k - 1)) / (SSW / (N - k)).
C20_FFormula ==
    (FCalled /\ RegularGroups(groups)) =>
        LET k == Len(groups)
            N == Len(Extend(groups))
        IN  /\ f_result # FRaised
            /\ f_result[1] = RDiv(RDiv(SSBOf(groups), Rat(k - 1, 1)),
                                  RDiv(SSWOf(groups), Rat(N - k, 1)))

C20_Witness ==
    /\ FCalled
    /\ RegularGroups(groups)
    /\ Len(groups) = 3
    /\ Len(groups[1]) = 1
    /\ Len(groups[2]) = 2
    /\ Len(groups[3]) = 3
    /\ RGt(f_result[1], One)
    /\ f_result[1][2] # 1

\* the function gets as far as MSW and MSW is 0: at least 2 groups, more
\* values than groups, and no group holds two different values
MswIsZero(gs) ==
    /\ Len(gs) >= 2
    /\ Len(Extend(gs)) > Len(gs)
    /\ \A k \in 1..Len(gs) : Constant(gs[k])

\* C21: whenever the within-groups mean square MSW is 0, calculate_f_statistic
\* returns F = 0 and raises no division error.
C21_ZeroMswZeroF ==
    (FCalled /\ MswIsZero(groups)) =>
        /\ MeanSquareWithin(WithinSS(groups), Len(Extend(groups)) - Len(groups)) = Zero
        /\ f_result # FRaised
        /\ f_result[1] = Zero

C21_Witness ==
    /\ FCalled
    /\ MswIsZero(groups)
    /\ Len(groups) = 3
    /\ Len(groups[1]) = 2
    /\ Len(groups[2]) = 1
    /\ Len(groups[3]) = 3
    /\ groups[1][1] # groups[2][1]
    /\ groups[2][1] # groups[3][1]
    /\ f_result = <<Zero, P_10>>

\* one of the two degrees of freedom is zero: number of groups - 1, or
\* total sample count - number of groups
ZeroDegreesOfFreedom(gs) ==
    \/ Len(gs) - 1 = 0
    \/ Len(Extend(gs)) - Len(gs) = 0

\* C22: calculate_f_statistic returns the neutral default (F = 0, p = 1)
\* whenever the between-groups or the within-groups degrees of freedom is
\* zero, for example when every group holds exactly one value.
C22_ZeroDfNeutral ==
    (FCalled /\ ZeroDegreesOfFreedom(groups)) => f_result = <<Zero, One>>

C22_Witness ==
    /\ FCalled
    /\ Len(groups) = 3
    /\ \A k \in 1..3 : Len(groups[k]) = 1
    /\ groups[1][1] # groups[2][1]
    /\ groups[2][1] # groups[3][1]
    /\ ZeroDegreesOfFreedom(groups)
    /\ f_result = <<Zero, One>>

(***************************************************************************)
(* Spec: the results-table script run on a loaded data set.                *)
(***************************************************************************)
EmpathyTypeInputs == {"affective", "other"}
AttributeTypeInputs == {"age", "gender"}
AttributeValueInputs == {"x", "y"}

RowInputs ==
    [empathy_type : EmpathyTypeInputs,
     attribute_type : AttributeTypeInputs,
     attribute_value : AttributeValueInputs,
     empathy_score : Values]

DataInputs == SeqsUpTo(RowInputs, MaxRows)

Init ==
    /\ data \in DataInputs
    /\ results = <<>>
    /\ prev_results = <<>>
    /\ run_count = 0
    /\ StatsIdle
    /\ ScoreIdle
    /\ BatchIdle
    /\ LoadIdle
    /\ LabelsIdle
    /\ EtaIdle
    /\ PureIdle

\* one run of the script: results = analyze_data(data)
RunAnalysis ==
    /\ run_count < MaxRuns
    /\ \E attribute_types \in SetOrders(AttributeTypeSet(data)) :
          results' = analyze_data(data, attribute_types)
    /\ prev_results' = results
    /\ run_count' = run_count + 1
    /\ UNCHANGED <<data, statsVars, scoreVars, batchVars, loadVars, labelVars, etaVars, pureVars>>

Next == RunAnalysis

Spec == Init /\ [][Next]_vars

(***************************************************************************)
(* Claims about analyze_data, checked under Spec.                          *)
(***************************************************************************)
Analyzed == run_count > 0

\* the empathy types of the input domain
EmpathyTypeDomain == {"affective", "cognitive", "motivational"}

\* the record at position i reports the pair (et, at)
Reports(i, et, at) ==
    /\ results[i].Empathy_Type = Title(et)
    /\ results[i].Attribute_Type = Title(at)

\* the attribute values among the rows of the pair (et, at)
PairValues(et, at) ==
    {data[i].attribute_value :
        i \in {j \in 1..Len(data) :
                  data[j].empathy_type = et /\ data[j].attribute_type = at}}

\* C4: in every record analyze_data emits, an F statistic above 2.5 for the
\* pair comes with a Significance marker other than "ns".
C4_HighFNotNs ==
    Analyzed =>
        \A i \in 1..Len(results) : \A et \in EmpathyTypeDomain :
            \A at \in AttributeTypeInputs :
                (/\ Reports(i, et, at)
                 /\ RGt(calculate_f_statistic(PairGroups(data, et, at))[1], Rat(5, 2)))
                    => results[i].Significance # "ns"

\* C6: the Significance marker of every record is decided by the record's p
\* value alone: "***" below 0.001, "**" from 0.001 to below 0.01, "*" from
\* 0.01 to below 0.05, "ns" otherwise.
C6_MarkerFromP ==
    Analyzed =>
        \A i \in 1..Len(results) :
            LET p == results[i].p_Value
            IN  results[i].Significance =
                    IF RLt(p, Rat(1, 1000)) THEN "***"
                    ELSE IF RLt(p, Rat(1, 100)) THEN "**"
                    ELSE IF RLt(p, Rat(5, 100)) THEN "*"
                    ELSE "ns"

C6_Witness ==
    /\ Analyzed
    /\ \E i \in 1..Len(results) :
          /\ results[i].p_Value = Rat(1, 100)
          /\ results[i].Significance = "*"

\* C7: analyze_data emits exactly one record for each (empathy type,
\* attribute type) pair whose rows hold 2 or more attribute values, and none
\* for a pair with fewer.
C7_OneRecordPerPair ==
    Analyzed =>
        /\ \A et \in EmpathyTypeDomain : \A at \in AttributeTypeInputs :
              Cardinality({i \in 1..Len(results) : Reports(i, et, at)})
                  = IF Cardinality(PairValues(et, at)) >= 2 THEN 1 ELSE 0
        /\ \A i \in 1..Len(results) :
              \E et \in EmpathyTypeDomain : \E at \in AttributeTypeInputs :
                  Reports(i, et, at)

C7_Witness ==
    /\ Analyzed
    /\ Len(results) = 1
    /\ \E at \in AttributeTypeInputs :
          /\ Cardinality(PairValues("affective", at)) = 1
          /\ Len(AttrData(data, "affective", at)) >= 2

\* C8: two runs of analyze_data on the same rows produce the same list of
\* records in the same order.
C8_RunsAgree ==
    run_count >= 2 => results = prev_results

\* the rows of the pair (et, at), by position in the loaded data
PairRowIndexes(et, at) ==
    {j \in 1..Len(data) : data[j].empathy_type = et /\ data[j].attribute_type = at}

\* the rows of the pair (et, at) that carry the attribute value v
ValueRowIndexes(et, at, v) ==
    {j \in PairRowIndexes(et, at) : data[j].attribute_value = v}

\* C23: in every record, each row of the pair's subset is counted in exactly
\* one attribute-value group: the per-group counts are the row counts of the
\* distinct attribute values, they sum to Total_N, which is the size of the
\* subset, and Groups is the number of distinct attribute values, at least 2.
C23_GroupsPartitionSubset ==
    Analyzed =>
        \A i \in 1..Len(results) : \A et \in EmpathyTypeDomain :
            \A at \in AttributeTypeInputs :
                Reports(i, et, at) =>
                    LET details == results[i].Group_Details
                    IN  /\ results[i].Total_N = Cardinality(PairRowIndexes(et, at))
                        /\ IntSum([g \in 1..Len(details) |-> details[g].n])
                               = results[i].Total_N
                        /\ results[i].Groups = Cardinality(PairValues(et, at))
                        /\ results[i].Groups >= 2
                        /\ Len(details) = results[i].Groups
                        /\ \A g, h \in 1..Len(details) :
                               g # h => details[g].value # details[h].value
                        /\ \A g \in 1..Len(details) :
                               details[g].n
                                   = Cardinality(ValueRowIndexes(et, at, details[g].value))

C23_Witness ==
    /\ Analyzed
    /\ Len(data) = 4
    /\ \E i \in 1..Len(results) :
          /\ results[i].Total_N = 3
          /\ results[i].Groups = 2
          /\ results[i].Group_Details[1].n = 1
          /\ results[i].Group_Details[2].n = 2

\* the F statistic analyze_data computes for the pair (et, at)
PairF(et, at) == calculate_f_statistic(PairGroups(data, et, at))[1]

\* C27: no record carries "***"; a record carries "**" exactly when the F of
\* its pair is above 7.0, "*" exactly when 4.0 < F <= 7.0, and "ns" in every
\* other case.
C27_MarkerFromF ==
    Analyzed =>
        \A i \in 1..Len(results) : \A et \in EmpathyTypeDomain :
            \A at \in AttributeTypeInputs :
                Reports(i, et, at) =>
                    LET F == PairF(et, at)
                    IN  results[i].Significance =
                            IF RGt(F, Rat(7, 1)) THEN "**"
                            ELSE IF RGt(F, Rat(4, 1)) THEN "*"
                            ELSE "ns"

C27_Witness ==
    /\ Analyzed
    /\ \E i \in 1..Len(results) :
          /\ results[i].F_Statistic = Rat(9, 1)
          /\ results[i].p_Value = Rat(1, 1000)
          /\ results[i].Significance = "**"

(***************************************************************************)
(* SpecTypes: the same script on rows of all three empathy types and of a  *)
(* fourth one, with one attribute type and equal scores.                   *)
(***************************************************************************)
MaxTypeRows == 6    \* rows in the loaded data

TypeRowInputs ==
    [empathy_type : {"affective", "cognitive", "motivational", "other"},
     attribute_type : {"age"},
     attribute_value : AttributeValueInputs,
     empathy_score : {0}]

InitTypes ==
    /\ data \in SeqsUpTo(TypeRowInputs, MaxTypeRows)
    /\ results = <<>>
    /\ prev_results = <<>>
    /\ run_count = 0
    /\ StatsIdle
    /\ ScoreIdle
    /\ BatchIdle
    /\ LoadIdle
    /\ LabelsIdle
    /\ EtaIdle
    /\ PureIdle

NextTypes == RunAnalysis

SpecTypes == InitTypes /\ [][NextTypes]_vars

\* C29: analyze_data reports only affective, cognitive and motivational:
\* every record is the record of a pair of one of these types, its Total_N
\* and its group counts count rows of that pair only, so rows of any other
\* type are in no record and in no count; and there are at most 3 records
\* per attribute type.
C29_OnlyThreeEmpathyTypes ==
    Analyzed =>
        /\ \A i \in 1..Len(results) :
              /\ results[i].Empathy_Type \in {"Affective", "Cognitive", "Motivational"}
              /\ \E et \in EmpathyTypeDomain : \E at \in AttributeTypeSet(data) :
                    /\ Reports(i, et, at)
                    /\ results[i].Total_N = Cardinality(PairRowIndexes(et, at))
                    /\ \A g \in 1..Len(results[i].Group_Details) :
                          results[i].Group_Details[g].n =
                              Cardinality(ValueRowIndexes(et, at,
                                              results[i].Group_Details[g].value))
        /\ Len(results) <= 3 * Cardinality(AttributeTypeSet(data))

C29_Witness ==
    /\ Analyzed
    /\ Len(results) = 2
    /\ \E j, k \in 1..Len(data) :
          /\ data[j].empathy_type = "other"
          /\ data[k].empathy_type = "other"
          /\ data[j].attribute_value # data[k].attribute_value

(***************************************************************************)
(* SpecScore: empathy_score.py, calculate_new_empathy_score.               *)
(* A frame is a sequence of rows; a row is a record of the five LIWC       *)
(* percentage columns the function reads.  Cells are whole percentages.    *)
(***************************************************************************)
MaxDfRows == 1      \* rows of a frame
MaxPct == 2         \* cells are drawn from 0..MaxPct
MaxFactor == 3      \* scaling factors are drawn from 0..MaxFactor

Columns ==
    {"second_person", "negative_emotion", "cognitive_processes", "insight",
     "first_person_singular"}

\* the float literals of lines 40-43
SECOND_PERSON_WEIGHT == Rat(15, 10)
NEGATIVE_EMOTION_WEIGHT == Rat(10, 10)
COGNITIVE_INSIGHT_WEIGHT == Rat(12, 10)
FIRST_PERSON_WEIGHT == Rat(20, 10)

\* lines 47-50
second_person_contribution(row) ==
    RMul(Rat(row.second_person, 1), SECOND_PERSON_WEIGHT)

negative_emotion_contribution(row) ==
    RMul(Rat(row.negative_emotion, 1), NEGATIVE_EMOTION_WEIGHT)

cognitive_insight_contribution(row) ==
    RMul(RAdd(Rat(row.cognitive_processes, 1), Rat(row.insight, 1)),
         COGNITIVE_INSIGHT_WEIGHT)

first_person_penalty(row) ==
    RMul(Rat(row.first_person_singular, 1), FIRST_PERSON_WEIGHT)

\* mutant: insight is added after the 1.2 factor instead of inside it
NewEmpathyScoreMisgrouped(row) ==
    RSub(RAdd(RAdd(RAdd(RMul(Rat(row.second_person, 1), SECOND_PERSON_WEIGHT),
                        RMul(Rat(row.negative_emotion, 1), NEGATIVE_EMOTION_WEIGHT)),
                   RMul(Rat(row.cognitive_processes, 1), COGNITIVE_INSIGHT_WEIGHT)),
              Rat(row.insight, 1)),
         RMul(Rat(row.first_person_singular, 1), FIRST_PERSON_WEIGHT))

\* mutant: the first-person term is added instead of subtracted
NewEmpathyScorePenaltyAdded(row) ==
    RAdd(RAdd(RAdd(RMul(Rat(row.second_person, 1), SECOND_PERSON_WEIGHT),
                   RMul(Rat(row.negative_emotion, 1), NEGATIVE_EMOTION_WEIGHT)),
              RMul(RAdd(Rat(row.cognitive_processes, 1), Rat(row.insight, 1)),
                   COGNITIVE_INSIGHT_WEIGHT)),
         RMul(Rat(row.first_person_singular, 1), FIRST_PERSON_WEIGHT))

\* lines 39-44, evaluated left to right as Python does
NewEmpathyScore(row) ==
    RSub(RAdd(RAdd(RMul(Rat(row.second_person, 1), SECOND_PERSON_WEIGHT),
                   RMul(Rat(row.negative_emotion, 1), NEGATIVE_EMOTION_WEIGHT)),
              RMul(RAdd(Rat(row.cognitive_processes, 1), Rat(row.insight, 1)),
                   COGNITIVE_INSIGHT_WEIGHT)),
         RMul(Rat(row.first_person_singular, 1), FIRST_PERSON_WEIGHT))

\* lines 28-56: a copy of the frame with five columns added
calculate_new_empathy_score(frame) ==
    [i \in 1..Len(frame) |->
        [second_person |-> frame[i].second_person,
         negative_emotion |-> frame[i].negative_emotion,
         cognitive_processes |-> frame[i].cognitive_processes,
         insight |-> frame[i].insight,
         first_person_singular |-> frame[i].first_person_singular,
         new_empathy_score |-> NewEmpathyScore(frame[i]),
         second_person_contribution |-> second_person_contribution(frame[i]),
         negative_emotion_contribution |-> negative_emotion_contribution(frame[i]),
         cognitive_insight_contribution |-> cognitive_insight_contribution(frame[i]),
         first_person_penalty |-> first_person_penalty(frame[i])]]

DfRowInputs == [Columns -> 0..MaxPct]

DfInputs == UNION {[1..n -> DfRowInputs] : n \in 0..MaxDfRows}

\* the frame with one column multiplied by k, the other four as they were
ScaleColumn(frame, column, k) ==
    [i \in 1..Len(frame) |-> [frame[i] EXCEPT ![column] = @ * k]]

InitScore ==
    /\ df \in DfInputs
    /\ df_new = NotCalled
    /\ scaled = <<>>
    /\ StatsIdle
    /\ AnalysisIdle
    /\ BatchIdle
    /\ LoadIdle
    /\ LabelsIdle
    /\ EtaIdle
    /\ PureIdle

\* main(), line 248: df_with_new_score = calculate_new_empathy_score(df)
CalculateScore ==
    /\ df_new = NotCalled
    /\ df_new' = calculate_new_empathy_score(df)
    /\ UNCHANGED <<df, scaled, statsVars, analysisVars, batchVars, loadVars, labelVars, etaVars, pureVars>>

\* the same function on the frame with one column scaled
CalculateScaled ==
    /\ scaled = <<>>
    /\ \E column \in Columns, k \in 0..MaxFactor :
          scaled' = <<[column |-> column, k |-> k,
                       df_new |-> calculate_new_empathy_score(ScaleColumn(df, column, k))]>>
    /\ UNCHANGED <<df, df_new, statsVars, analysisVars, batchVars, loadVars, labelVars, etaVars, pureVars>>

NextScore == CalculateScore \/ CalculateScaled

SpecScore == InitScore /\ [][NextScore]_vars

ScoreCalled == df_new # NotCalled

ScaledCalled == scaled # <<>>

\* C13: calculate_new_empathy_score sets, in every row, new_empathy_score to
\* second_person*1.5 + negative_emotion*1.0 + (cognitive_processes +
\* insight)*1.2 - first_person_singular*2.0, and leaves the five input
\* columns as they were.  The right-hand side is written in tenths.
C13_ScoreFormula ==
    ScoreCalled =>
        /\ Len(df_new) = Len(df)
        /\ \A i \in 1..Len(df) :
              /\ \A c \in Columns : df_new[i][c] = df[i][c]
              /\ df_new[i].new_empathy_score =
                    Rat(15 * df[i].second_person + 10 * df[i].negative_emotion
                        + 12 * df[i].cognitive_processes + 12 * df[i].insight
                        - 20 * df[i].first_person_singular, 10)

C13_Witness ==
    /\ ScoreCalled
    /\ Len(df) = 1
    /\ df[1].second_person = 1
    /\ df[1].negative_emotion = 2
    /\ df[1].cognitive_processes = 1
    /\ df[1].insight = 2
    /\ df[1].first_person_singular = 1
    /\ df_new[1].new_empathy_score = Rat(51, 10)

\* the coefficient of a column in the formula, in tenths
CoefficientTenths(column) ==
    CASE column = "second_person" -> 15
      [] column = "negative_emotion" -> 10
      [] column = "cognitive_processes" -> 12
      [] column = "insight" -> 12
      [] column = "first_person_singular" -> -20

\* new_empathy_score of row i after the scaling minus before it
ScoreChange(i) ==
    RSub(scaled[1].df_new[i].new_empathy_score, df_new[i].new_empathy_score)

\* C14 as stated: scaling one column by k, the other four fixed, changes
\* new_empathy_score by exactly k times that column's coefficient.
C14_ChangeIsKTimesCoefficient ==
    (ScoreCalled /\ ScaledCalled) =>
        \A i \in 1..Len(df) :
            ScoreChange(i) = Rat(scaled[1].k * CoefficientTenths(scaled[1].column), 10)

\* C14 amended: the change is (k - 1) times the column's value times the
\* column's coefficient, i.e. the column's term of the sum is multiplied by k.
C14_ChangeIsTermScaled ==
    (ScoreCalled /\ ScaledCalled) =>
        \A i \in 1..Len(df) :
            ScoreChange(i) =
                Rat((scaled[1].k - 1) * df[i][scaled[1].column]
                    * CoefficientTenths(scaled[1].column), 10)

C14_Witness ==
    /\ ScoreCalled
    /\ ScaledCalled
    /\ Len(df) = 1
    /\ scaled[1].column = "insight"
    /\ scaled[1].k = 3
    /\ df[1].insight = 2
    /\ df[1].first_person_singular = 1
    /\ ScoreChange(1) = Rat(48, 10)

(***************************************************************************)
(* SpecBatch: run_all_analysis.py.  main() walks the script list; for a    *)
(* script that exists run_script hands it to subprocess.run, which blocks  *)
(* until the child process has exited.  The environment decides whether a  *)
(* script file exists, whether the child can be started, and its exit      *)
(* status.                                                                 *)
(***************************************************************************)
MaxExit == 2        \* exit statuses are drawn from 0..MaxExit

\* lines 41-46
scripts ==
    <<"empathy_score.py", "liwc_Anova_results_table.py", "liwc_Anova_graph.py",
      "liwc_anovaTest.py">>

\* one entry of the log: the script of the step, what os.path.exists said,
\* the exit status of its process (<<>> when there was none) and what
\* run_script returned (<<>> when it was not called)
LogEntry(script, existed, exit, returned) ==
    [script |-> script, existed |-> existed, exit |-> exit, returned |-> returned]

InitBatch ==
    /\ pc = "start"
    /\ idx = 0
    /\ output_dir \in BOOLEAN
    /\ launched = <<>>
    /\ running = {}
    /\ log = <<>>
    /\ success_count = 0
    /\ total_count = 0
    /\ summary = <<>>
    /\ csv_file \in {"absent", "stale"}
    /\ csv_at_launch = <<>>
    /\ StatsIdle
    /\ AnalysisIdle
    /\ ScoreIdle
    /\ LoadIdle
    /\ LabelsIdle
    /\ EtaIdle
    /\ PureIdle

\* lines 33-49: create 'output' if it is missing, set the two counters
Begin ==
    /\ pc = "start"
    /\ output_dir' = TRUE
    /\ success_count' = 0
    /\ total_count' = Len(scripts)
    /\ idx' = 1
    /\ pc' = "loop"
    /\ UNCHANGED <<csv_file, csv_at_launch, launched, running, log, summary, statsVars, analysisVars, scoreVars,
                   loadVars, labelVars, etaVars, pureVars>>

\* mutant: a missing script is counted as a success
StepMissingCounted ==
    /\ pc = "loop"
    /\ idx <= Len(scripts)
    /\ log' = Append(log, LogEntry(scripts[idx], FALSE, <<>>, <<>>))
    /\ success_count' = success_count + 1
    /\ idx' = idx + 1
    /\ UNCHANGED <<csv_file, csv_at_launch, pc, output_dir, launched, running, total_count, summary, statsVars,
                   analysisVars, scoreVars, loadVars, labelVars, etaVars, pureVars>>

\* lines 52, 55-56: os.path.exists(script) is false
StepMissing ==
    /\ pc = "loop"
    /\ idx <= Len(scripts)
    /\ log' = Append(log, LogEntry(scripts[idx], FALSE, <<>>, <<>>))
    /\ idx' = idx + 1
    /\ UNCHANGED <<csv_file, csv_at_launch, pc, output_dir, launched, running, success_count, total_count, summary,
                   statsVars, analysisVars, scoreVars, loadVars, labelVars, etaVars,
                   pureVars>>

\* mutant: the child is started and the loop goes on without waiting for it
LaunchWithoutWaiting ==
    /\ pc = "loop"
    /\ idx <= Len(scripts)
    /\ launched' = Append(launched, scripts[idx])
    /\ csv_at_launch' = Append(csv_at_launch, csv_file)
    /\ running' = running \cup {scripts[idx]}
    /\ log' = Append(log, LogEntry(scripts[idx], TRUE, <<>>, <<TRUE>>))
    /\ success_count' = success_count + 1
    /\ idx' = idx + 1
    /\ UNCHANGED <<csv_file, pc, output_dir, total_count, summary, statsVars, analysisVars,
                   scoreVars, loadVars, labelVars, etaVars, pureVars>>

\* lines 52-53, 18-21: the script exists, subprocess.run starts the child
\* and waits for it
Launch ==
    /\ pc = "loop"
    /\ idx <= Len(scripts)
    /\ launched' = Append(launched, scripts[idx])
    /\ csv_at_launch' = Append(csv_at_launch, csv_file)
    /\ running' = running \cup {scripts[idx]}
    /\ pc' = "waiting"
    /\ UNCHANGED <<csv_file, idx, output_dir, log, success_count, total_count, summary, statsVars,
                   analysisVars, scoreVars, loadVars, labelVars, etaVars, pureVars>>

\* lines 52-53, 18-21, 27-29: the script exists, subprocess.run raises
\* before a child runs (the interpreter cannot be started); run_script
\* returns False
LaunchRaises ==
    /\ pc = "loop"
    /\ idx <= Len(scripts)
    /\ launched' = Append(launched, scripts[idx])
    /\ csv_at_launch' = Append(csv_at_launch, csv_file)
    /\ log' = Append(log, LogEntry(scripts[idx], TRUE, <<>>, <<FALSE>>))
    /\ idx' = idx + 1
    /\ UNCHANGED <<csv_file, pc, output_dir, running, success_count, total_count, summary,
                   statsVars, analysisVars, scoreVars, loadVars, labelVars, etaVars,
                   pureVars>>

\* the child empathy_score.py reaches save_results: to_csv opens the file
\* for writing, which empties it (empathy_score.py lines 183-184)
ChildOpensCsv ==
    /\ pc = "waiting"
    /\ scripts[idx] = "empathy_score.py"
    /\ csv_file \in {"absent", "stale"}
    /\ csv_file' = "partial"
    /\ UNCHANGED <<pc, idx, output_dir, launched, running, log, success_count, total_count,
                   summary, csv_at_launch, statsVars, analysisVars, scoreVars, loadVars,
                   labelVars, etaVars, pureVars>>

\* to_csv has written every row and closed the file (empathy_score.py line 184)
ChildClosesCsv ==
    /\ pc = "waiting"
    /\ scripts[idx] = "empathy_score.py"
    /\ csv_file = "partial"
    /\ csv_file' = "complete"
    /\ UNCHANGED <<pc, idx, output_dir, launched, running, log, success_count, total_count,
                   summary, csv_at_launch, statsVars, analysisVars, scoreVars, loadVars,
                   labelVars, etaVars, pureVars>>

\* mutant: empathy_score.py ends with status 0 without having saved its CSV
ChildExitsZeroWithoutSaving ==
    /\ pc = "waiting"
    /\ running' = running \ {scripts[idx]}
    /\ log' = Append(log, LogEntry(scripts[idx], TRUE, <<0>>, <<TRUE>>))
    /\ success_count' = success_count + 1
    /\ idx' = idx + 1
    /\ pc' = "loop"
    /\ UNCHANGED <<csv_file, csv_at_launch, output_dir, launched, total_count, summary,
                   statsVars, analysisVars, scoreVars, loadVars, labelVars, etaVars,
                   pureVars>>

\* lines 18-23, 53-54: the child exits with status 0; run_script returns
\* True.  empathy_score.py catches no exception, so it exits with status 0
\* only when its main() has run to the end, after save_results
\* (empathy_score.py lines 242-261)
ChildExitsZero ==
    /\ pc = "waiting"
    /\ scripts[idx] = "empathy_score.py" => csv_file = "complete"
    /\ running' = running \ {scripts[idx]}
    /\ log' = Append(log, LogEntry(scripts[idx], TRUE, <<0>>, <<TRUE>>))
    /\ success_count' = success_count + 1
    /\ idx' = idx + 1
    /\ pc' = "loop"
    /\ UNCHANGED <<csv_file, csv_at_launch, output_dir, launched, total_count, summary, statsVars, analysisVars,
                   scoreVars, loadVars, labelVars, etaVars, pureVars>>

\* mutant: CalledProcessError is not caught and ends main()
ChildExitsNonZeroStopsBatch ==
    /\ pc = "waiting"
    /\ running' = running \ {scripts[idx]}
    /\ \E code \in 1..MaxExit :
          log' = Append(log, LogEntry(scripts[idx], TRUE, <<code>>, <<>>))
    /\ pc' = "aborted"
    /\ UNCHANGED <<csv_file, csv_at_launch, idx, output_dir, launched, success_count, total_count, summary,
                   statsVars, analysisVars, scoreVars, loadVars, labelVars, etaVars,
                   pureVars>>

\* lines 18-21, 24-26: the child exits with a non-zero status, check=True
\* raises CalledProcessError; run_script returns False
ChildExitsNonZero ==
    /\ pc = "waiting"
    /\ running' = running \ {scripts[idx]}
    /\ \E code \in 1..MaxExit :
          log' = Append(log, LogEntry(scripts[idx], TRUE, <<code>>, <<FALSE>>))
    /\ idx' = idx + 1
    /\ pc' = "loop"
    /\ UNCHANGED <<csv_file, csv_at_launch, output_dir, launched, success_count, total_count, summary, statsVars,
                   analysisVars, scoreVars, loadVars, labelVars, etaVars, pureVars>>

\* lines 58-62: the loop is over, the summary is printed
Summary ==
    /\ pc = "loop"
    /\ idx > Len(scripts)
    /\ summary' = <<success_count, total_count>>
    /\ pc' = "done"
    /\ UNCHANGED <<csv_file, csv_at_launch, idx, output_dir, launched, running, log, success_count, total_count,
                   statsVars, analysisVars, scoreVars, loadVars, labelVars, etaVars,
                   pureVars>>

NextBatch ==
    \/ Begin
    \/ StepMissing
    \/ Launch
    \/ LaunchRaises
    \/ ChildOpensCsv
    \/ ChildClosesCsv
    \/ ChildExitsZero
    \/ ChildExitsNonZero
    \/ Summary

SpecBatch == InitBatch /\ [][NextBatch]_vars

\* main() is over
BatchStopped == pc \notin {"idle", "start", "loop", "waiting"}

\* the scripts handed to subprocess.run so far
LaunchedSet == {launched[i] : i \in 1..Len(launched)}

\* step i ended abnormally: a non-zero exit status or no process at all
EndedAbnormally(i) ==
    /\ log[i].existed
    /\ log[i].exit # <<0>>

\* C15: a step that exits abnormally (non-zero exit status or an exception
\* while launching) never stops the batch: main() stops only when all
\* listed steps have been handled, and every handled step whose script
\* existed was handed to subprocess.run, whatever happened before it.
C15_FailureDoesNotStopBatch ==
    /\ BatchStopped => Len(log) = Len(scripts)
    /\ \A i \in 1..Len(log) :
          /\ log[i].script = scripts[i]
          /\ log[i].existed => log[i].script \in LaunchedSet

C15_Witness ==
    /\ pc = "done"
    /\ Len(log) = 4
    /\ log[1].exit = <<1>>
    /\ log[2].exit = <<>>
    /\ log[2].returned = <<FALSE>>
    /\ EndedAbnormally(1)
    /\ EndedAbnormally(2)
    /\ log[3].exit = <<0>>
    /\ log[4].exit = <<0>>
    /\ launched = scripts

\* position of a script in the fixed order of the claim
FixedOrder ==
    <<"empathy_score.py", "liwc_Anova_results_table.py", "liwc_Anova_graph.py",
      "liwc_anovaTest.py">>

OrderOf(script) == CHOOSE n \in 1..Len(FixedOrder) : FixedOrder[n] = script

\* C16: steps are launched one at a time in the fixed order: at most one
\* child process is alive, it is the one launched last, each script is
\* launched at most once and in the order of the list, and while a child is
\* alive main() waits for it.
C16_OneAtATimeInOrder ==
    /\ Cardinality(running) <= 1
    /\ \A i \in 1..Len(launched) : launched[i] \in {FixedOrder[n] : n \in 1..Len(FixedOrder)}
    /\ \A i, j \in 1..Len(launched) :
          i < j => OrderOf(launched[i]) < OrderOf(launched[j])
    /\ running # {} => (pc = "waiting" /\ running = {launched[Len(launched)]})
    /\ pc = "waiting" => running # {}

C16_Witness ==
    /\ launched = FixedOrder
    /\ running = {"liwc_anovaTest.py"}
    /\ Len(log) = 3
    /\ log[3].exit = <<2>>

\* the steps whose script existed and whose process exited with status 0
SucceededSteps == {i \in 1..Len(log) : log[i].existed /\ log[i].exit = <<0>>}

\* C17: at the end the printed success count is the number of listed steps
\* whose script existed and whose process exited with status 0, the printed
\* total is 4; a missing script is in the total and not in the successes;
\* success_count <= total_count whenever the counters are set.
C17_SummaryCounts ==
    /\ pc = "done" =>
          /\ summary = <<Cardinality(SucceededSteps), 4>>
          /\ Len(log) = 4
    /\ pc \in {"loop", "waiting", "done"} =>
          /\ success_count = Cardinality(SucceededSteps)
          /\ total_count = 4
          /\ success_count <= total_count

C17_Witness ==
    /\ pc = "done"
    /\ ~log[1].existed
    /\ log[2].exit = <<0>>
    /\ log[3].exit = <<2>>
    /\ log[4].exit = <<>>
    /\ log[4].existed
    /\ summary = <<1, 4>>

\* the three steps that read the augmented CSV
ConsumingSteps ==
    {"liwc_Anova_results_table.py", "liwc_Anova_graph.py", "liwc_anovaTest.py"}

\* the empathy_score.py step has been reported successful
ScoreStepSucceeded == Len(log) >= 1 /\ log[1].returned = <<TRUE>>

\* C28: if the empathy_score.py step is reported successful, the augmented
\* CSV was completely written when each consuming step was launched; when
\* that step failed or its script was missing the batch still handles all
\* consuming steps and launches each one whose script exists.
C28_CsvCompleteBeforeConsumers ==
    /\ Len(csv_at_launch) = Len(launched)
    /\ ScoreStepSucceeded =>
          \A k \in 1..Len(launched) :
              launched[k] \in ConsumingSteps => csv_at_launch[k] = "complete"
    /\ (BatchStopped /\ ~ScoreStepSucceeded) =>
          /\ Len(log) = Len(scripts)
          /\ \A i \in 2..Len(log) : log[i].existed => log[i].script \in LaunchedSet

C28_Witness ==
    /\ pc = "done"
    /\ ScoreStepSucceeded
    /\ launched = scripts
    /\ csv_at_launch = <<"stale", "complete", "complete", "complete">>

(***************************************************************************)
(* SpecLabels: the effect-size label each reporting script attaches to an  *)
(* eta-squared value.  The scripts write their labels in different words   *)
(* (the two reports in Chinese); the model keeps one English string per    *)
(* source label.                                                           *)
(***************************************************************************)
MaxEtaHundredths == 100     \* eta-squared is drawn from 0/100 .. MaxEtaHundredths/100

ETA_SMALL == Rat(1, 100)    \* liwc_anovaTest.py line 390

\* liwc_Anova_graph.py line 381; source labels xiao / zhong / da ("... effect")
GraphEffectSizeOf(eta) ==
    IF RLt(eta, ETA_MEDIUM) THEN "small"
    ELSE IF RLt(eta, ETA_LARGE) THEN "medium"
    ELSE "large"

\* mutant: no class below 0.01
TestEffectSizeOfNoFloor(eta) ==
    IF RGe(eta, ETA_LARGE) THEN "large effect"
    ELSE IF RGe(eta, ETA_MEDIUM) THEN "medium effect"
    ELSE "small effect"

\* liwc_anovaTest.py lines 386-393; source labels da xiaoying / zhongdeng
\* xiaoying / xiao xiaoying / wu xiaoying
TestEffectSizeOf(eta) ==
    IF RGe(eta, ETA_LARGE) THEN "large effect"
    ELSE IF RGe(eta, ETA_MEDIUM) THEN "medium effect"
    ELSE IF RGe(eta, ETA_SMALL) THEN "small effect"
    ELSE "no effect"

EtaInputs == {Rat(n, 100) : n \in 0..MaxEtaHundredths}

InitLabels ==
    /\ eta_input \in EtaInputs
    /\ table_label = ""
    /\ graph_label = ""
    /\ test_label = ""
    /\ StatsIdle
    /\ AnalysisIdle
    /\ ScoreIdle
    /\ BatchIdle
    /\ LoadIdle
    /\ EtaIdle
    /\ PureIdle

\* liwc_Anova_results_table.py lines 170-176
LabelTable ==
    /\ table_label = ""
    /\ table_label' = EffectSizeOf(eta_input)
    /\ UNCHANGED <<eta_input, graph_label, test_label, statsVars, analysisVars, scoreVars,
                   batchVars, loadVars, etaVars, pureVars>>

\* liwc_Anova_graph.py lines 379-382
LabelGraph ==
    /\ graph_label = ""
    /\ graph_label' = GraphEffectSizeOf(eta_input)
    /\ UNCHANGED <<eta_input, table_label, test_label, statsVars, analysisVars, scoreVars,
                   batchVars, loadVars, etaVars, pureVars>>

\* liwc_anovaTest.py lines 385-395
LabelTest ==
    /\ test_label = ""
    /\ test_label' = TestEffectSizeOf(eta_input)
    /\ UNCHANGED <<eta_input, table_label, graph_label, statsVars, analysisVars, scoreVars,
                   batchVars, loadVars, etaVars, pureVars>>

NextLabels == LabelTable \/ LabelGraph \/ LabelTest

SpecLabels == InitLabels /\ [][NextLabels]_vars

\* the class a label stands for, whatever the script's wording
EffectClass(label) ==
    CASE label \in {"Small", "small", "small effect"} -> "small"
      [] label \in {"Medium", "medium", "medium effect"} -> "medium"
      [] label \in {"Large", "large", "large effect"} -> "large"
      [] OTHER -> "none"

\* the classes of the claim: small below 0.06, medium in [0.06, 0.14),
\* large from 0.14, with eta-squared n/100 given by its numerator n
ThreeClasses(eta) ==
    IF eta[1] * 100 < 6 * eta[2] THEN "small"
    ELSE IF eta[1] * 100 < 14 * eta[2] THEN "medium"
    ELSE "large"

\* C19 as stated: the results table, the group-comparison report and the
\* comprehensive report all label eta-squared small below 0.06, medium in
\* [0.06, 0.14) and large from 0.14.
C19_SameThresholdsEverywhere ==
    /\ table_label # "" => EffectClass(table_label) = ThreeClasses(eta_input)
    /\ graph_label # "" => EffectClass(graph_label) = ThreeClasses(eta_input)
    /\ test_label # "" => EffectClass(test_label) = ThreeClasses(eta_input)

\* C19 amended: the results table and the group-comparison report use the
\* three classes; the comprehensive report uses the same bounds for medium
\* and large, but labels small only from 0.01 and "no effect" below 0.01.
C19_ThresholdsPerReport ==
    /\ table_label # "" => EffectClass(table_label) = ThreeClasses(eta_input)
    /\ graph_label # "" => EffectClass(graph_label) = ThreeClasses(eta_input)
    /\ test_label # "" =>
          EffectClass(test_label) =
              IF eta_input[1] * 100 < eta_input[2] THEN "none"
              ELSE ThreeClasses(eta_input)

C19_Witness ==
    /\ eta_input = Zero
    /\ table_label = "Small"
    /\ graph_label = "small"
    /\ test_label = "no effect"

(***************************************************************************)
(* SpecLoad: liwc_Anova_results_table.py, load_data.  The file is a header *)
(* line and data lines; a line is the sequence of its field texts.         *)
(* csv.DictReader pairs the header's names with the fields of a line: a    *)
(* name the line has no field for gets None, fields beyond the header are  *)
(* collected under the key None.  A cell is <<text>>, or <<>> for None.    *)
(***************************************************************************)
MaxCsvRows == 3     \* data lines of the file

None == <<>>

\* csv.DictReader, line 18-19: the dict of one data line
DictRow(fields, line) ==
    [name \in {fields[k] : k \in 1..Len(fields)} |->
        LET k == CHOOSE k \in 1..Len(fields) : fields[k] = name
        IN  IF k <= Len(line) THEN <<line[k]>> ELSE None]

\* Python's float() on a str: surrounding blanks are stripped; a text that
\* is not a number raises ValueError
ParseFloat(text) ==
    CASE text = "1.5" -> [raised |-> "", value |-> Rat(15, 10)]
      [] text = "2" -> [raised |-> "", value |-> Rat(2, 1)]
      [] text = " 3 " -> [raised |-> "", value |-> Rat(3, 1)]
      [] OTHER -> [raised |-> "ValueError", value |-> Raised]

\* line 21, float(row['empathy_score']): a missing key raises KeyError,
\* None raises TypeError
ScoreOf(row) ==
    IF "empathy_score" \notin DOMAIN row
        THEN [raised |-> "KeyError", value |-> Raised]
    ELSE IF row["empathy_score"] = None
        THEN [raised |-> "TypeError", value |-> Raised]
    ELSE ParseFloat(row["empathy_score"][1])

\* lines 19-24: the for loop from data line i on, with the rows kept so far;
\* ValueError and KeyError skip the row, any other exception leaves the
\* function
RECURSIVE LoadLoop(_, _, _, _)
LoadLoop(fields, lines, i, loaded) ==
    IF i > Len(lines) THEN [raised |-> "", data |-> loaded]
    ELSE LET row == DictRow(fields, lines[i])
             score == ScoreOf(row)
         IN  IF score.raised = ""
                 THEN LoadLoop(fields, lines, i + 1,
                               Append(loaded, [row EXCEPT !["empathy_score"] = score.value]))
             ELSE IF score.raised \in {"ValueError", "KeyError"}
                 THEN LoadLoop(fields, lines, i + 1, loaded)
             ELSE [raised |-> score.raised, data |-> <<>>]

\* lines 13-25
load_data(fields, lines) == LoadLoop(fields, lines, 1, <<>>)

HeaderInputs == {<<"id", "empathy_score">>, <<"id">>}

FieldTexts == {"1.5", "2", " 3 ", "abc", ""}

LineInputs ==
    {<<id>> : id \in {"r1", "r2"}}
        \cup {<<id, text>> : id \in {"r1", "r2"}, text \in FieldTexts}

CsvInputs == UNION {[1..n -> LineInputs] : n \in 0..MaxCsvRows}

InitLoad ==
    /\ csv_fields \in HeaderInputs
    /\ csv_rows \in CsvInputs
    /\ load_result = NotCalled
    /\ StatsIdle
    /\ AnalysisIdle
    /\ ScoreIdle
    /\ BatchIdle
    /\ LabelsIdle
    /\ EtaIdle
    /\ PureIdle

\* main(), line 346: data = load_data()
LoadData ==
    /\ load_result = NotCalled
    /\ load_result' = <<load_data(csv_fields, csv_rows)>>
    /\ UNCHANGED <<csv_fields, csv_rows, statsVars, analysisVars, scoreVars, batchVars,
                   labelVars, etaVars, pureVars>>

NextLoad == LoadData

SpecLoad == InitLoad /\ [][NextLoad]_vars

LoadCalled == load_result # NotCalled

\* the data lines whose empathy_score field is there and reads as a number
HasScoreColumn == Len(csv_fields) >= 2 /\ csv_fields[2] = "empathy_score"

NumberTexts == {"1.5", "2", " 3 "}

WellFormed(line) == HasScoreColumn /\ Len(line) >= 2 /\ line[2] \in NumberTexts

NumberOf(text) ==
    CASE text = "1.5" -> Rat(3, 2)
      [] text = "2" -> Rat(2, 1)
      [] text = " 3 " -> Rat(3, 1)

\* the well-formed lines in input order, as <<id, score>>
RECURSIVE ExpectedRows(_)
ExpectedRows(lines) ==
    IF lines = <<>> THEN <<>>
    ELSE IF WellFormed(Head(lines))
        THEN <<<<Head(lines)[1], NumberOf(Head(lines)[2])>>>> \o ExpectedRows(Tail(lines))
    ELSE ExpectedRows(Tail(lines))

\* the rows load_data returned, as <<id, score>>
LoadedRows ==
    [i \in 1..Len(load_result[1].data) |->
        <<load_result[1].data[i]["id"][1], load_result[1].data[i]["empathy_score"]>>]

\* C18: load_data never fails on a malformed row: a row whose empathy_score
\* is missing or is not a number is dropped, every other row is kept in
\* input order with its score converted, to the end of the file.
C18_MalformedRowsDropped ==
    LoadCalled =>
        /\ load_result[1].raised = ""
        /\ LoadedRows = ExpectedRows(csv_rows)

(***************************************************************************)
(* SpecEta: the eta-squared of perform_anova_analysis in liwc_anovaTest.py *)
(* and in liwc_Anova_graph.py, for the groups of one pair.  Both compute   *)
(* it only for 2 or more groups, none of them empty.                       *)
(***************************************************************************)

\* numpy's nan: what np.mean of an empty list and np.var of too few values
\* give; arithmetic on it yields it again
NaN == Raised

\* np.var(xs, ddof=1): the sample variance, nan for fewer than 2 values
SampleVar(xs) ==
    IF Len(xs) < 2 THEN NaN
    ELSE RDiv(SumSqDev(xs, Mean(xs)), Rat(Len(xs) - 1, 1))

\* np.mean of a list of numbers, nan for the empty list
MeanOf(rs) == IF rs = <<>> THEN NaN ELSE RDiv(RSum(rs), Rat(Len(rs), 1))

\* liwc_anovaTest.py lines 96-103
TestEtaSquared(gs) ==
    LET all_values == Extend(gs)
        total_var == SampleVar(all_values)
        overall_mean == Mean(all_values)
        between_var ==
            RSum([i \in 1..Len(gs) |->
                    RMul(Rat(Len(gs[i]), 1), RSq(RSub(Mean(gs[i]), overall_mean)))])
    IN  IF total_var # NaN /\ RGt(total_var, Zero)
        THEN RDiv(between_var, RMul(Rat(Len(all_values), 1), total_var))
        ELSE Zero

\* liwc_Anova_graph.py lines 103-106
GraphEtaSquared(gs) ==
    LET total_var == SampleVar(Extend(gs))
        big == SelectSeq(gs, LAMBDA g : Len(g) > 1)
        within_var == MeanOf([i \in 1..Len(big) |-> SampleVar(big[i])])
    IN  IF total_var # NaN /\ RGt(total_var, Zero)
        THEN RDiv(RSub(total_var, within_var), total_var)
        ELSE Zero

\* the groups perform_anova_analysis builds: 2 or more, each with a value
EtaGroupInputs ==
    {gs \in GroupsInputs : Len(gs) >= 2 /\ \A k \in 1..Len(gs) : Len(gs[k]) >= 1}

InitEta ==
    /\ eta_groups \in EtaGroupInputs
    /\ test_eta = NotCalled
    /\ graph_eta = NotCalled
    /\ StatsIdle
    /\ AnalysisIdle
    /\ ScoreIdle
    /\ BatchIdle
    /\ LoadIdle
    /\ LabelsIdle
    /\ PureIdle

\* liwc_anovaTest.py, perform_anova_analysis, for one pair
CallTestEta ==
    /\ test_eta = NotCalled
    /\ test_eta' = <<TestEtaSquared(eta_groups)>>
    /\ UNCHANGED <<eta_groups, graph_eta, statsVars, analysisVars, scoreVars, batchVars,
                   loadVars, labelVars, pureVars>>

\* liwc_Anova_graph.py, perform_anova_analysis, for one pair
CallGraphEta ==
    /\ graph_eta = NotCalled
    /\ graph_eta' = <<GraphEtaSquared(eta_groups)>>
    /\ UNCHANGED <<eta_groups, test_eta, statsVars, analysisVars, scoreVars, batchVars,
                   loadVars, labelVars, pureVars>>

NextEta == CallTestEta \/ CallGraphEta

SpecEta == InitEta /\ [][NextEta]_vars

\* C24: the eta-squared liwc_anovaTest.perform_anova_analysis reports for a
\* set of groups is the between-group sum of squares over the total sum of
\* squares, the value calculate_eta_squared returns for the same groups.
C24_TestEtaIsSsbOverSst ==
    test_eta # NotCalled =>
        /\ test_eta[1] = calculate_eta_squared(eta_groups)
        /\ (SSBOf(eta_groups) # Zero \/ SSWOf(eta_groups) # Zero) =>
              test_eta[1] = RDiv(SSBOf(eta_groups),
                                 RAdd(SSBOf(eta_groups), SSWOf(eta_groups)))

\* C25: the eta-squared liwc_Anova_graph.perform_anova_analysis stores for
\* a pair with 2 or more groups lies in [0, 1].
C25_GraphEtaInUnitInterval ==
    graph_eta # NotCalled =>
        /\ graph_eta[1] # NaN
        /\ RGe(graph_eta[1], Zero)
        /\ RLe(graph_eta[1], One)

(***************************************************************************)
(* SpecPure: repeated calls of the two statistics on one list of groups.   *)
(* The only statements of the two functions that change a list are the     *)
(* append and extend calls of their first loop; the loop is modelled on    *)
(* the lists it touches, the argument among them.                          *)
(***************************************************************************)
MaxCalls == 2        \* calls of each function on the list
MaxPureGroups == 2   \* groups in the list

\* the lists in scope when the loop starts: the argument and the three
\* lists created empty at lines 33-35 (87-89)
LocalsAtEntry(gs) ==
    [arg |-> gs, group_means |-> <<>>, group_sizes |-> <<>>, all_values |-> <<>>]

\* mutant: all_values is bound to the first group instead of a new list, so
\* extend grows that group
CollectStepAliased(h, i) ==
    IF Len(h.arg[i]) > 0
    THEN [h EXCEPT !.group_means = Append(@, Mean(h.arg[i])),
                   !.group_sizes = Append(@, Len(h.arg[i])),
                   !.arg[1] = @ \o h.arg[i]]
    ELSE h

\* lines 37-41 (91-95): one iteration of the loop, on group i
CollectStep(h, i) ==
    IF Len(h.arg[i]) > 0
    THEN [h EXCEPT !.group_means = Append(@, Mean(h.arg[i])),
                   !.group_sizes = Append(@, Len(h.arg[i])),
                   !.all_values = @ \o h.arg[i]]
    ELSE h

RECURSIVE CollectLoop(_, _)
CollectLoop(h, i) ==
    IF i > Len(h.arg) THEN h ELSE CollectLoop(CollectStep(h, i), i + 1)

\* the argument after calculate_f_statistic has run: the early return of
\* line 29-30 comes before the loop, the lines after the loop only read
ArgAfterF(gs) ==
    IF Len(gs) < 2 THEN gs ELSE CollectLoop(LocalsAtEntry(gs), 1).arg

\* the argument after calculate_eta_squared has run
ArgAfterEta(gs) == CollectLoop(LocalsAtEntry(gs), 1).arg

PureInputs == {gs \in GroupsInputs : Len(gs) <= MaxPureGroups}

InitPure ==
    /\ passed \in PureInputs
    /\ passed_now = passed
    /\ f_calls = <<>>
    /\ eta_calls = <<>>
    /\ StatsIdle
    /\ AnalysisIdle
    /\ ScoreIdle
    /\ BatchIdle
    /\ LoadIdle
    /\ LabelsIdle
    /\ EtaIdle

\* calculate_f_statistic(groups) on the list as it is now
CallFOnPassed ==
    /\ Len(f_calls) < MaxCalls
    /\ f_calls' = Append(f_calls, calculate_f_statistic(passed_now))
    /\ passed_now' = ArgAfterF(passed_now)
    /\ UNCHANGED <<passed, eta_calls, statsVars, analysisVars, scoreVars, batchVars,
                   loadVars, labelVars, etaVars>>

\* calculate_eta_squared(groups) on the list as it is now
CallEtaOnPassed ==
    /\ Len(eta_calls) < MaxCalls
    /\ eta_calls' = Append(eta_calls, calculate_eta_squared(passed_now))
    /\ passed_now' = ArgAfterEta(passed_now)
    /\ UNCHANGED <<passed, f_calls, statsVars, analysisVars, scoreVars, batchVars,
                   loadVars, labelVars, etaVars>>

NextPure == CallFOnPassed \/ CallEtaOnPassed

SpecPure == InitPure /\ [][NextPure]_vars

\* C26: calculate_f_statistic and calculate_eta_squared leave the groups
\* passed to them as they were (same groups, same elements, same order),
\* and every call with these groups returns what the first call returned.
C26_PureFunctions ==
    /\ passed_now = passed
    /\ \A i \in 1..Len(f_calls) : f_calls[i] = calculate_f_statistic(passed)
    /\ \A i \in 1..Len(eta_calls) : eta_calls[i] = calculate_eta_squared(passed)
    /\ \A i, j \in 1..Len(f_calls) : f_calls[i] = f_calls[j]
    /\ \A i, j \in 1..Len(eta_calls) : eta_calls[i] = eta_calls[j]

C26_Witness ==
    /\ Len(f_calls) = 2
    /\ Len(eta_calls) = 2
    /\ Len(passed) = 2
    /\ Len(passed[1]) = 2
    /\ Len(passed[2]) = 3
    /\ RGt(f_calls[2][1], One)
    /\ RGt(eta_calls[2], Zero)
    /\ passed_now = passed

====
